---- MODULE Spec2Model ----
(***************************************************************************)
(* A model of the Chart-Library (d3 chart wrappers).                       *)
(*                                                                         *)
(* The d3 objects the library drives are modelled by what the library      *)
(* relies on:                                                              *)
(*   - a linear scale is a record [id, dom]: the identity of the scale     *)
(*     object and its domain <<lo, hi>>; its range is fixed by the         *)
(*     constructor ([height, 0] for a y scale);                            *)
(*   - a selection is a record [null, at]: whether the member is null, and *)
(*     the positions, in their parent, of the elements it holds;           *)
(*   - selectAll(cls).data(ds).enter().append(tag) is d3's join by index:  *)
(*     the k elements already in the parent are re-bound to ds[1..k] and   *)
(*     keep their attributes, one element is appended for every further    *)
(*     datum, and the value of the expression holds the appended ones.     *)
(* Pixel positions are exact fractions <<numerator, denominator>>.         *)
(***************************************************************************)
EXTENDS Integers, Sequences, FiniteSets, TLC

\* ------------------------------------------------------------------ bounds
\* Data-insertion calls made on one chart.
MaxCalls == 2
\* Series (segments, dot groups, ranges) in one dataset.
MaxSeries == 2

\* Size asked of Chart.genSequence.
MaxSize == 4

\* Rows of a dataset given to Correlation.pearson.
MaxRows == 3

\* Geometry of the README example: svg of 600 by 400, margins of 20.
TotalWidth == 600
TotalHeight == 400
Margin == 20
Width == TotalWidth - Margin - Margin
Height == TotalHeight - Margin - Margin

\* ------------------------------------------------------------ arithmetic
RECURSIVE Gcd(_, _)
Gcd(a, b) == IF b = 0 THEN a ELSE Gcd(b, a % b)

Abs(x) == IF x < 0 THEN 0 - x ELSE x

\* The fraction n/d (d # 0) in lowest terms with a positive denominator.
Frac(n, d) ==
    LET g == Gcd(Abs(n), Abs(d))
        s == IF d < 0 THEN 0 - 1 ELSE 1
    IN  <<(s * n) \div g, (s * d) \div g>>

\* Exact arithmetic on fractions <<numerator, denominator>>, not reduced.
FAdd(a, b) ==
    IF a[2] = b[2] THEN <<a[1] + b[1], a[2]>>
    ELSE <<a[1] * b[2] + b[1] * a[2], a[2] * b[2]>>
FSub(a, b) == FAdd(a, <<0 - b[1], b[2]>>)
FMul(a, b) == <<a[1] * b[1], a[2] * b[2]>>
FInt(n) == <<n, 1>>
Sign(n) == IF n < 0 THEN 0 - 1 ELSE IF n > 0 THEN 1 ELSE 0

SetMin(S) == CHOOSE x \in S : \A y \in S : x <= y
SetMax(S) == CHOOSE x \in S : \A y \in S : x >= y

Range(s) == {s[i] : i \in 1..Len(s)}

SeqsUpTo(S, n) == UNION {[1..k -> S] : k \in 0..n}

\* ----------------------------------------------------------------- inputs
\* Series of values a caller plots as segments or as dots.
SeriesPool == {<<0, 2>>, <<0 - 1, 1>>}
\* Series of [minimum, maximum] pairs a caller plots as ranges.
RangePool == {<< <<0, 1>>, <<1, 3>> >>, << <<0 - 2, 0>> >>}
\* Scales a caller installs through yScale(scale).
ScalePool == {[id |-> 1, dom |-> <<0, 4>>]}
\* Label tables a caller attaches through labelTable(table).
TablePool == {"table"}

\* Datasets given to Correlation.pearson: 1..MaxRows rows of one or two columns.
PearsonCols == {1, 2}
PearsonCells == {0, 1, 3}
PearsonDatasets ==
    UNION {[1..n -> [1..m -> PearsonCells]] : n \in 1..MaxRows, m \in PearsonCols}

\* Arguments of the chart constructors. A JavaScript value is a record with
\* its typeof ("null" for null and undefined) and, for an object, its fields.
Kinds == {"Histogram", "Segments", "Map", "Scatterplot", "Pie", "StarGlyph", "Correlation"}
Containers == {[width |-> 600, height |-> 400], [width |-> 300, height |-> 150]}
NullValue == [type |-> "null"]
PositionPool ==
    {NullValue, [type |-> "number", value |-> 7], [type |-> "object", x |-> 30, y |-> 45]}
MarginsPool ==
    {NullValue, [type |-> "number", value |-> 0], [type |-> "number", value |-> 20],
     [type |-> "object", left |-> 40, right |-> 5, top |-> 15, bottom |-> 25]}
DimensionsPool == {NullValue, [type |-> "object", width |-> 200, height |-> 100]}

\* Objects a caller passes to a mutator (scales, generators, functions, ids):
\* the identity of the object and, for a scale, its domain and range.
ValuePool ==
    {[ref |-> "v1", dom |-> <<0, 4>>, range |-> <<0, 100>>],
     [ref |-> "v2", dom |-> <<5, 1, 3>>, range |-> <<0, 50, 100>>]}

\* The charts with one selection for each class of element (Segments is apart).
InsKinds == Kinds \ {"Segments"}

\* Datasets for the insertion operations of those charts.
HistogramPool == {<<1>>, <<2, 4>>}
ScatterplotPool == {<< <<5, 5>> >>, << <<0, 2>>, <<4, 0>> >>}
PiePool == {<<1>>, <<1, 3>>}
LabelPool == {<<"a">>, <<"a", "b">>}
StarGlyphPool == {<<1, 2, 3>>, <<3, 1>>}
DomainsPool == {<< <<0, 5>>, <<0, 5>>, <<0, 5>> >>}
FeaturesPool == {<<"f1">>, <<"f1", "f2">>}
CorrelationPool == {<< <<0>>, <<1>> >>, << <<0, 1>>, <<1, 0>>, <<3, 3>> >>}

\* Axis scales given to Histogram.xAxisScale: ordinal, with an empty name at
\* both ends of the domain.
AxisScalePool ==
    {[ref |-> "axis", dom |-> <<"", "a", "b", "">>, range |-> <<0, 140, 420, 560>>]}

\* Datasets given to Histogram.setData.
ColumnsPool == {<<2, 4>>, <<3, 0 - 1, 1>>, <<0, 0>>}

\* Colour scales given to Histogram.colorScale: domains and ranges of two
\* or three entries.
ColourScalePool ==
    {[ref |-> "c22", dom |-> <<0, 1>>, range |-> <<"red", "blue">>],
     [ref |-> "c23", dom |-> <<0, 1>>, range |-> <<"red", "green", "blue">>],
     [ref |-> "c32", dom |-> <<0, 1, 2>>, range |-> <<"red", "blue">>],
     [ref |-> "c33", dom |-> <<0, 1, 2>>, range |-> <<"red", "green", "blue">>]}

\* Scales given to xScale and yScale of src/Scatterplot.js.
LinearScalePool ==
    {[ref |-> "s1", dom |-> <<0, 4>>, range |-> <<0, 100>>],
     [ref |-> "s2", dom |-> <<5, 1>>, range |-> <<0, 100>>],
     [ref |-> "s3", dom |-> <<0 - 2, 2>>, range |-> <<0, 100>>],
     [ref |-> "s4", dom |-> <<0, 10>>, range |-> <<100, 0>>],
     [ref |-> "s5", dom |-> <<3, 3>>, range |-> <<0, 100>>]}


SegDatasets == SeqsUpTo(SeriesPool, MaxSeries)
RangeDatasets == SeqsUpTo(RangePool, MaxSeries)

VARIABLES
    yScale,      \* Segments._yScale
    segLayer,    \* the path elements inside Segments._segLayer
    dotLayer,    \* the g.dotGroup elements inside Segments._dotLayer
    rangeLayer,  \* the path elements inside Segments._rangeLayer
    segSel,      \* Segments._segSelection
    dotSel,      \* Segments._dotSelection (the circles of these groups)
    rangeSel,    \* Segments._rangeSelection
    labelTable,  \* Chart._labelTable
    op,          \* the operation that was called last
    ret,         \* what it returned
    calls,       \* data-insertion calls made so far
    inserted,    \* history: every value inserted so far
    pearsonIn,   \* the dataset Correlation.pearson is called with
    pearsonOut,  \* the table it returned (<<>> before the call)
    ctorArgs,    \* the arguments the chart was constructed with
    chart,       \* the geometry the constructor gave the chart
    accKind,     \* the class of the chart whose accessors are called
    members,     \* the members of that chart its accessors read and write
    call,        \* the accessor call made last: [mode, field, arg]
    insKind,     \* the class of the chart data is inserted on
    layers,      \* the elements in that chart's group, by class, in order
    sels,        \* the selection member of each class
    aux,         \* what else the insertions of that chart read and write
    staticArgs,  \* the arguments of the call of a static helper of Chart, or
                 \* the attributes parameter of an insertion
    staticResult \* what that call returned

comVars == <<labelTable, op, ret, calls>>
segVars == <<yScale, segLayer, dotLayer, rangeLayer, segSel, dotSel, rangeSel, inserted>>
pearsonVars == <<pearsonIn, pearsonOut>>

ctorVars == <<ctorArgs, chart>>

accVars == <<accKind, members, call>>

insVars == <<insKind, layers, sels, aux>>

staticVars == <<staticArgs, staticResult>>

vars == <<comVars, segVars, pearsonVars, ctorVars, accVars, insVars, staticVars>>

\* What the operations of one part leave alone.
notSeg == <<pearsonVars, ctorVars, accVars, insVars, staticVars>>
notPearson == <<segVars, ctorVars, accVars, insVars, staticVars>>
notCtor == <<segVars, pearsonVars, accVars, insVars, staticVars>>
notAcc == <<segVars, pearsonVars, ctorVars, insVars, staticVars>>
notIns == <<segVars, pearsonVars, ctorVars, accVars, staticVars>>
notStatic == <<segVars, pearsonVars, ctorVars, accVars, insVars>>

\* ------------------------------------------------------------ d3 helpers
\* A member that holds no selection, and one that holds the elements at `at`.
NoSelection == [null |-> TRUE, at |-> {}]
Selection(at) == [null |-> FALSE, at |-> at]

\* d3.extent of an array of numbers.
Extent(s) == <<SetMin(Range(s)), SetMax(Range(s))>>

\* scale(d) for a linear scale of domain dom and range [Height, 0].
ScaleY(dom, d) == Frac(Height * (dom[2] - d), dom[2] - dom[1])

\* The y coordinates of the path d3.line() draws for a series.
SegPath(dom, series) == [i \in 1..Len(series) |-> ScaleY(dom, series[i])]

\* The y0 and y1 coordinates of the path d3.area() draws for a range.
RangePath(dom, series) ==
    [i \in 1..Len(series) |-> <<ScaleY(dom, series[i][1]), ScaleY(dom, series[i][2])>>]

\* A slip: the domain replaced by the extent of the new series alone.
NewDomainOfDatasetOnly(extents, dom) ==
    IF extents = <<>> THEN dom
    ELSE <<SetMin({extents[i][1] : i \in 1..Len(extents)}),
           SetMax({extents[i][2] : i \in 1..Len(extents)})>>

\* The domain the three insertion operations compute from the extents of the
\* series and the current domain.
NewDomain(extents, dom) ==
    LET all == extents \o <<dom>>
    IN  <<SetMin({all[i][1] : i \in 1..Len(all)}),
          SetMax({all[i][2] : i \in 1..Len(all)})>>

\* Chart.adjustScaleDomain: sets the domain of the scale when one is given.
AdjustScaleDomain(scale, domain) == [scale EXCEPT !.dom = domain]

\* The data join by index on a parent holding `layer`: the elements already
\* there re-bound, then one element made by New(i) for every further datum.
Rebind(layer, dataset) ==
    [k \in 1..Len(layer) |->
        IF k <= Len(dataset) THEN [layer[k] EXCEPT !.data = dataset[k]] ELSE layer[k]]

\* `drawn` holds, for every datum, the element append() makes for it.
Join(layer, dataset, drawn) ==
    Rebind(layer, dataset) \o
    [j \in 1..(IF Len(dataset) > Len(layer) THEN Len(dataset) - Len(layer) ELSE 0)
        |-> drawn[Len(layer) + j]]

Entered(layer, dataset) == (Len(layer) + 1)..Len(dataset)

\* selection.remove(): the elements the selection holds leave their parent.
RECURSIVE Without(_, _, _)
Without(layer, at, k) ==
    IF k > Len(layer) THEN <<>>
    ELSE (IF k \in at THEN <<>> ELSE <<layer[k]>>) \o Without(layer, at, k + 1)

Remove(layer, sel) == Without(layer, sel.at, 1)

\* remove() on the circles of the dot groups a selection holds: the circles
\* leave their groups, the groups stay in the layer.
RemoveCircles(layer, sel) ==
    [k \in 1..Len(layer) |->
        IF k \in sel.at THEN [layer[k] EXCEPT !.circles = <<>>] ELSE layer[k]]

\* ------------------------------------------------- re-rendering selections
RedrawSegs(layer, sel, dom) ==
    IF sel.null THEN layer
    ELSE [k \in 1..Len(layer) |->
            IF k \in sel.at THEN [layer[k] EXCEPT !.d = SegPath(dom, layer[k].data)]
            ELSE layer[k]]

RedrawRanges(layer, sel, dom) ==
    IF sel.null THEN layer
    ELSE [k \in 1..Len(layer) |->
            IF k \in sel.at THEN [layer[k] EXCEPT !.d = RangePath(dom, layer[k].data)]
            ELSE layer[k]]

RedrawCircles(circles, dom) ==
    [i \in 1..Len(circles) |-> [circles[i] EXCEPT !.cy = ScaleY(dom, circles[i].data)]]

\* A slip: the dots already plotted left where they are.
RedrawDotsForgotten(layer, sel, dom) == layer

RedrawDots(layer, sel, dom) ==
    IF sel.null THEN layer
    ELSE [k \in 1..Len(layer) |->
            IF k \in sel.at THEN [layer[k] EXCEPT !.circles = RedrawCircles(layer[k].circles, dom)]
            ELSE layer[k]]

\* ---------------------------------------------------------- Segments chart
\* Chart constructor, as far as every chart shares it: no label table.
ComInit ==
    /\ labelTable = "null"
    /\ op = "new"
    /\ ret = "this"
    /\ calls = 0

SegInit ==
    /\ yScale = [id |-> 0, dom |-> <<0, 1>>]
    /\ segLayer = <<>>
    /\ dotLayer = <<>>
    /\ rangeLayer = <<>>
    /\ segSel = NoSelection
    /\ dotSel = NoSelection
    /\ rangeSel = NoSelection
    /\ inserted = {}

ValuesOf(dataset) == UNION {Range(dataset[i]) : i \in 1..Len(dataset)}

SetSegments(dataset) ==
    LET datasetExtent == [i \in 1..Len(dataset) |-> Extent(dataset[i])]
        newDomain == NewDomain(datasetExtent, yScale.dom)
        scale == AdjustScaleDomain(yScale, newDomain)
        drawn == [i \in 1..Len(dataset) |->
                    [data |-> dataset[i], d |-> SegPath(scale.dom, dataset[i])]]
    IN  /\ calls < MaxCalls
        /\ yScale' = scale
        /\ segLayer' = Join(segLayer, dataset, drawn)
        /\ segSel' = Selection(Entered(segLayer, dataset))
        /\ dotLayer' = RedrawDots(dotLayer, dotSel, scale.dom)
        /\ rangeLayer' = RedrawRanges(rangeLayer, rangeSel, scale.dom)
        /\ op' = "setSegments"
        /\ ret' = "this"
        /\ calls' = calls + 1
        /\ inserted' = inserted \cup ValuesOf(dataset)
        /\ UNCHANGED <<dotSel, rangeSel, labelTable, notSeg>>

SetDots(dataset) ==
    LET datasetExtent == [i \in 1..Len(dataset) |-> Extent(dataset[i])]
        newDomain == NewDomain(datasetExtent, yScale.dom)
        scale == AdjustScaleDomain(yScale, newDomain)
        Circles(series) ==
            [i \in 1..Len(series) |-> [data |-> series[i], cy |-> ScaleY(scale.dom, series[i])]]
        drawn == [i \in 1..Len(dataset) |->
                    [data |-> dataset[i], circles |-> Circles(dataset[i])]]
    IN  /\ calls < MaxCalls
        /\ yScale' = scale
        /\ dotLayer' = Join(dotLayer, dataset, drawn)
        /\ dotSel' = Selection(Entered(dotLayer, dataset))
        /\ segLayer' = RedrawSegs(segLayer, segSel, scale.dom)
        /\ rangeLayer' = RedrawRanges(rangeLayer, rangeSel, scale.dom)
        /\ op' = "setDots"
        /\ ret' = "this"
        /\ calls' = calls + 1
        /\ inserted' = inserted \cup ValuesOf(dataset)
        /\ UNCHANGED <<segSel, rangeSel, labelTable, notSeg>>

PairValuesOf(dataset) ==
    UNION {UNION {{dataset[i][j][1], dataset[i][j][2]} : j \in 1..Len(dataset[i])}
            : i \in 1..Len(dataset)}

SetRanges(dataset) ==
    LET datasetExtent ==
            [i \in 1..Len(dataset) |->
                <<SetMin({dataset[i][j][1] : j \in 1..Len(dataset[i])}),
                  SetMax({dataset[i][j][2] : j \in 1..Len(dataset[i])})>>]
        newDomain == NewDomain(datasetExtent, yScale.dom)
        scale == AdjustScaleDomain(yScale, newDomain)
        drawn == [i \in 1..Len(dataset) |->
                    [data |-> dataset[i], d |-> RangePath(scale.dom, dataset[i])]]
    IN  /\ calls < MaxCalls
        /\ yScale' = scale
        /\ rangeLayer' = Join(rangeLayer, dataset, drawn)
        /\ rangeSel' = Selection(Entered(rangeLayer, dataset))
        /\ dotLayer' = RedrawDots(dotLayer, dotSel, scale.dom)
        /\ segLayer' = RedrawSegs(segLayer, segSel, scale.dom)
        /\ op' = "setRanges"
        /\ ret' = "this"
        /\ calls' = calls + 1
        /\ inserted' = inserted \cup PairValuesOf(dataset)
        /\ UNCHANGED <<segSel, dotSel, labelTable, notSeg>>

\* A slip: clear() leaving the label table attached.
ChartClearKeepsTable(table) == table

\* Chart.clear: removes the label table.
ChartClear(table) == "null"

SegClear ==
    /\ dotLayer' = IF dotSel.null THEN dotLayer ELSE RemoveCircles(dotLayer, dotSel)
    /\ dotSel' = NoSelection
    /\ segLayer' = IF segSel.null THEN segLayer ELSE Remove(segLayer, segSel)
    /\ segSel' = NoSelection
    /\ rangeLayer' = IF rangeSel.null THEN rangeLayer ELSE Remove(rangeLayer, rangeSel)
    /\ rangeSel' = NoSelection
    /\ labelTable' = ChartClear(labelTable)
    /\ op' = "clear"
    /\ ret' = "this"
    /\ UNCHANGED <<yScale, calls, inserted, notSeg>>

\* Segments.yScale(scale) with a scale: installs it and redraws the axis.
SegYScale(scale) ==
    /\ yScale' = AdjustScaleDomain(scale, scale.dom)
    /\ op' = "yScale"
    /\ ret' = "this"
    /\ UNCHANGED <<segLayer, dotLayer, rangeLayer, segSel, dotSel, rangeSel,
                   labelTable, calls, inserted, notSeg>>

\* Chart.labelTable(table) with a table: attaches it.
SegLabelTable(table) ==
    /\ labelTable' = table
    /\ op' = "labelTable"
    /\ ret' = table
    /\ UNCHANGED <<yScale, segLayer, dotLayer, rangeLayer, segSel, dotSel, rangeSel,
                   calls, inserted, notSeg>>

SegNext ==
    \/ \E ds \in SegDatasets : SetSegments(ds)
    \/ \E ds \in SegDatasets : SetDots(ds)
    \/ \E ds \in RangeDatasets : SetRanges(ds)
    \/ SegClear
    \/ \E s \in ScalePool : SegYScale(s)
    \/ \E t \in TablePool : SegLabelTable(t)

\* ------------------------------------------------------ Correlation.pearson
\* A JavaScript number c / Math.sqrt(q) for exact c and q >= 0, in a canonical
\* form: NaN for 0/0, an infinity for c/0, else its sign and its square.
DivSqrt(c, q) ==
    IF q[1] = 0
    THEN [kind |-> IF c[1] = 0 THEN "NaN" ELSE "Infinity", sgn |-> Sign(c[1]), sq |-> <<0, 1>>]
    ELSE [kind |-> "number", sgn |-> Sign(c[1]), sq |-> Frac(c[1] * c[1] * q[2], c[2] * c[2] * q[1])]

\* d3.sum of an array of exact fractions.
RECURSIVE D3SumFrom(_, _)
D3SumFrom(s, k) == IF k > Len(s) THEN <<0, 1>> ELSE FAdd(s[k], D3SumFrom(s, k + 1))
D3Sum(s) == D3SumFrom(s, 1)

\* dataset.map(d=>d[i]), from row k on.
RECURSIVE ColumnFrom(_, _, _)
ColumnFrom(dataset, i, k) ==
    IF k > Len(dataset) THEN <<>>
    ELSE <<FInt(dataset[k][i])>> \o ColumnFrom(dataset, i, k + 1)

\* A slip: the mean of the first column taken for every column.
D3MeanFirstColumn(dataset, i) ==
    LET total == D3Sum(ColumnFrom(dataset, 1, 1))
    IN  <<total[1], total[2] * Len(dataset)>>

\* d3.mean(dataset.map(d=>d[i])).
D3Mean(dataset, i) ==
    LET total == D3Sum(ColumnFrom(dataset, i, 1))
    IN  <<total[1], total[2] * Len(dataset)>>

\* dataset.map(d=>(d[i] - means[i]) * (d[j] - means[j])), from row k on.
RECURSIVE DeviationProducts(_, _, _, _, _)
DeviationProducts(dataset, means, i, j, k) ==
    IF k > Len(dataset) THEN <<>>
    ELSE <<FMul(FSub(FInt(dataset[k][i]), means[i]), FSub(FInt(dataset[k][j]), means[j]))>>
         \o DeviationProducts(dataset, means, i, j, k + 1)

\* d3.sum of the products of the deviations of columns i and j.
Covariance(dataset, means, i, j) == D3Sum(DeviationProducts(dataset, means, i, j, 1))

\* A slip: the deviation of column i used for both factors.
RadicandOneColumn(dataset, means, i, j) ==
    FMul(Covariance(dataset, means, i, i), Covariance(dataset, means, i, i))

\* stdDeviationI * stdDeviationJ.
Radicand(dataset, means, i, j) ==
    LET stdDeviationI == Covariance(dataset, means, i, i)
        stdDeviationJ == Covariance(dataset, means, j, j)
    IN  FMul(stdDeviationI, stdDeviationJ)

Pearson(dataset) ==
    LET m == Len(dataset[1])
        means == [i \in 1..m |-> D3Mean(dataset, i)]
    IN  [i \in 1..m |-> [j \in 1..m |->
            DivSqrt(Covariance(dataset, means, i, j), Radicand(dataset, means, i, j))]]

PearsonIdle ==
    /\ pearsonIn = <<>>
    /\ pearsonOut = <<>>

PearsonInit ==
    /\ pearsonIn \in PearsonDatasets
    /\ pearsonOut = <<>>

PearsonCall ==
    /\ pearsonOut' = Pearson(pearsonIn)
    /\ op' = "pearson"
    /\ ret' = "table"
    /\ UNCHANGED <<pearsonIn, labelTable, calls, notPearson>>

PearsonNext == PearsonCall

\* -------------------------------------------------------- constructors

CtorIdle ==
    /\ ctorArgs = [kind |-> "none"]
    /\ chart = [kind |-> "none"]

\* A slip: a number given as margins taken for the left and top margins only.
ResolveMarginsLeftTop(margins) ==
    IF margins.type = "null" THEN [left |-> 10, right |-> 10, top |-> 10, bottom |-> 10]
    ELSE IF margins.type = "number"
    THEN [left |-> margins.value, right |-> 10, top |-> margins.value, bottom |-> 10]
    ELSE [left |-> margins.left, right |-> margins.right,
          top |-> margins.top, bottom |-> margins.bottom]

\* this._margins of the Chart constructor.
ResolveMargins(margins) ==
    IF margins.type = "null" THEN [left |-> 10, right |-> 10, top |-> 10, bottom |-> 10]
    ELSE IF margins.type = "number"
    THEN [left |-> margins.value, right |-> margins.value,
          top |-> margins.value, bottom |-> margins.value]
    ELSE [left |-> margins.left, right |-> margins.right,
          top |-> margins.top, bottom |-> margins.bottom]

\* this._x and this._y of the Chart constructor.
ResolvePosition(position) ==
    IF position.type # "object" THEN [x |-> 0, y |-> 0]
    ELSE [x |-> position.x, y |-> position.y]

\* The Chart constructor: position, margins, inner size, and the group
\* appended to the container with its transform "translate(tx,ty)".
ChartConstructor(kind, container, position, margins, dimensions) ==
    LET pos == ResolvePosition(position)
        m == ResolveMargins(margins)
        total == IF dimensions.type = "null" THEN container
                 ELSE [width |-> dimensions.width, height |-> dimensions.height]
    IN  [kind |-> kind,
         x |-> pos.x,
         y |-> pos.y,
         margins |-> m,
         width |-> total.width - m.left - m.right,
         height |-> total.height - m.top - m.bottom,
         transform |-> <<Frac(m.left + pos.x, 1), Frac(m.top + pos.y, 1)>>]

\* The Pie and StarGlyph constructors set the transform of the group again,
\* to the centre of the inner area.
CentreTransform(c) ==
    [c EXCEPT !.transform = <<Frac(2 * c.margins.left + c.width, 2),
                              Frac(2 * c.margins.top + c.height, 2)>>]

Construct(kind, container, position, margins, dimensions) ==
    LET base == ChartConstructor(kind, container, position, margins, dimensions)
    IN  /\ chart = [kind |-> "none"]
        /\ ctorArgs' = [kind |-> kind, container |-> container, position |-> position,
                         margins |-> margins, dimensions |-> dimensions]
        /\ chart' = IF kind \in {"Pie", "StarGlyph"} THEN CentreTransform(base) ELSE base
        /\ op' = "new"
        /\ ret' = "this"
        /\ UNCHANGED <<labelTable, calls, notCtor>>

CtorNext ==
    \E kind \in Kinds, container \in Containers, position \in PositionPool,
       margins \in MarginsPool, dimensions \in DimensionsPool :
        Construct(kind, container, position, margins, dimensions)

\* ----------------------------------------------- accessor/mutator pairs
\* The accessor/mutator methods of each class, Chart.id included
\* (Chart.labelTable is LabelTableSet and LabelTableGet).
AccessorsOf(kind) ==
    {"id"} \cup
    CASE kind = "Histogram" -> {"xAxisScale", "yScale", "colorScale"}
      [] kind = "Segments" -> {"xAxisScale", "yScale", "segPathGenerator",
                               "rangePathGenerator", "dotColorScale", "rangeColorScale"}
      [] kind = "Map" -> {"projection", "fillValue", "colorScale", "colorScheme"}
      [] kind = "Scatterplot" -> {"xScale", "yScale", "colorScale"}
      [] kind = "Pie" -> {"innerRadius", "outerRadius", "colorScale"}
      [] kind = "StarGlyph" -> {"pathGenerator", "fillFunction"}
      [] kind = "Correlation" -> {"colorScheme"}

\* The members behind them; Histogram and Segments also keep an _xScale that
\* xAxisScale(scale) adjusts, and Map a _geoPath made from the projection.
MembersOf(kind) ==
    AccessorsOf(kind) \cup
    CASE kind \in {"Histogram", "Segments"} -> {"xScale"}
      [] kind = "Map" -> {"geoPath"}
      [] OTHER -> {}

\* The object the constructor puts in a member.
InitialMember(m) == [ref |-> m, dom |-> <<0, 1>>, range |-> <<0, 1>>]

AccIdle ==
    /\ accKind = "none"
    /\ members = <<>>
    /\ call = [mode |-> "none"]

AccInit ==
    /\ accKind \in Kinds
    /\ members = [m \in MembersOf(accKind) |-> InitialMember(m)]
    /\ call = [mode |-> "none"]

\* The member the accessor of `field` returns when called with no argument.
GetterMember(kind, field) ==
    IF kind = "Segments" /\ field = "xAxisScale" THEN "xScale" ELSE field

\* A slip: a mutator that stores nothing.
SetterEffectNone(kind, field, v, ms) == ms

\* The members after the mutator of `field` is called with the object v.
SetterEffect(kind, field, v, ms) ==
    IF kind = "Histogram" /\ field = "xAxisScale"
    THEN [ms EXCEPT !.xAxisScale = v,
                    !.xScale = [@ EXCEPT !.dom = <<0, Len(v.dom) - 3>>,
                                         !.range = <<v.range[2], v.range[Len(v.dom) - 1]>>]]
    ELSE IF kind = "Segments" /\ field = "xAxisScale"
    THEN [ms EXCEPT !.xAxisScale = v,
                    !.xScale = [@ EXCEPT !.dom = <<0, Len(v.dom) - 1>>]]
    ELSE IF kind = "Histogram" /\ field = "yScale"
    THEN [ms EXCEPT !.yScale = AdjustScaleDomain(v, Extent(v.dom))]
    ELSE IF kind = "Map" /\ field = "projection"
    THEN [ms EXCEPT !.projection = v, !.geoPath = [@ EXCEPT !.ref = v.ref]]
    ELSE [ms EXCEPT ![field] = v]

\* accessor(v) with a truthy v: stores it and returns the chart.
Mutate(field, v) ==
    /\ field \in AccessorsOf(accKind)
    /\ members' = SetterEffect(accKind, field, v, members)
    /\ call' = [mode |-> "set", field |-> field, arg |-> v]
    /\ op' = field
    /\ ret' = "this"
    /\ UNCHANGED <<accKind, labelTable, calls, notAcc>>

\* accessor() with no argument: returns the member.
Access(field) ==
    /\ field \in AccessorsOf(accKind)
    /\ ret' = members[GetterMember(accKind, field)]
    /\ call' = [mode |-> "get", field |-> field]
    /\ op' = field
    /\ UNCHANGED <<accKind, members, labelTable, calls, notAcc>>

\* Chart.labelTable(table) with a table: stores and returns it.
LabelTableSet(table) ==
    /\ accKind # "none"
    /\ labelTable' = table
    /\ ret' = [ref |-> table]
    /\ call' = [mode |-> "set", field |-> "labelTable", arg |-> [ref |-> table]]
    /\ op' = "labelTable"
    /\ UNCHANGED <<accKind, members, calls, notAcc>>

\* Chart.labelTable() with no argument: returns the table.
LabelTableGet ==
    /\ accKind # "none"
    /\ ret' = [ref |-> labelTable]
    /\ call' = [mode |-> "get", field |-> "labelTable"]
    /\ op' = "labelTable"
    /\ UNCHANGED <<accKind, members, labelTable, calls, notAcc>>

AllAccessors == UNION {AccessorsOf(k) : k \in Kinds}

AccNext ==
    \/ \E f \in AllAccessors, v \in ValuePool : Mutate(f, v)
    \/ \E f \in AllAccessors : Access(f)
    \/ \E t \in TablePool : LabelTableSet(t)
    \/ LabelTableGet

\* ------------------------------------------- data insertion and clear()
\* The classes of the elements each chart plots; the selection member that
\* holds the elements of a class is named after the class.
LayersOf(kind) ==
    CASE kind = "Histogram" -> {"column"}
      [] kind = "Scatterplot" -> {"dot"}
      [] kind = "Pie" -> {"slice", "sliceLabel"}
      [] kind = "StarGlyph" -> {"polygon", "cornerLabel"}
      [] kind = "Map" -> {"mapPath", "mapDot"}
      [] kind = "Correlation" -> {"rowLabel", "colLabel", "ellipseGroup", "rectGroup"}

\* What else the constructor of each chart sets up for the insertions.
AuxOf(kind) ==
    CASE kind = "Histogram" -> [yDom |-> <<0, 1>>]
      [] kind = "Scatterplot" -> [xDom |-> <<0, 1>>, yDom |-> <<0, 1>>]
      [] kind = "Pie" -> [pieData |-> NullValue]
      [] kind = "StarGlyph" -> [scales |-> <<>>]
      [] kind = "Map" -> [fitted |-> NullValue]
      [] kind = "Correlation" -> [posScale |-> <<0 - 1, 0, 1>>]

InsIdle ==
    /\ insKind = "none"
    /\ layers = <<>>
    /\ sels = <<>>
    /\ aux = <<>>

InsInit ==
    /\ insKind \in InsKinds
    /\ layers = [c \in LayersOf(insKind) |-> <<>>]
    /\ sels = [c \in LayersOf(insKind) |-> NoSelection]
    /\ aux = AuxOf(insKind)

\* scale(v) for a d3.scaleLinear of domain dom and range rng; a domain of one
\* point maps every value to the middle of the range.
ScaleLinear(dom, rng, v) ==
    IF dom[1] = dom[2] THEN Frac(rng[1] + rng[2], 2)
    ELSE Frac(rng[1] * (dom[2] - dom[1]) + (rng[2] - rng[1]) * (v - dom[1]),
              dom[2] - dom[1])

\* scale.invert(scale(v)): v itself, but the one point of a one-point domain.
InvertOfScale(dom, v) == IF dom[1] = dom[2] THEN dom[1] ELSE v

\* selectAll(class).data(dataset).enter().append(tag) on the chart's group.
JoinLayer(class, dataset, drawn) ==
    [layers EXCEPT ![class] = Join(@, dataset, drawn)]

EnterSelection(class, dataset) ==
    [sels EXCEPT ![class] = Selection(Entered(layers[class], dataset))]

\* Histogram.setData
HistogramSetData(dataset) ==
    LET yDom == <<0, SetMax(Range(dataset))>>
        drawn == [i \in 1..Len(dataset) |->
                    [data |-> dataset[i],
                     y |-> ScaleLinear(yDom, <<Height, 0>>, dataset[i])]]
    IN  /\ insKind = "Histogram"
        /\ calls < MaxCalls
        /\ aux' = [aux EXCEPT !.yDom = yDom]
        /\ layers' = JoinLayer("column", dataset, drawn)
        /\ sels' = EnterSelection("column", dataset)
        /\ op' = "setData"
        /\ ret' = "this"
        /\ calls' = calls + 1
        /\ UNCHANGED <<insKind, labelTable, notIns>>

\* Scatterplot.setData with the default cx and cy
ScatterplotSetData(dataset) ==
    LET minMaxX == Extent([i \in 1..Len(dataset) |-> InvertOfScale(aux.xDom, dataset[i][1])])
        minMaxY == Extent([i \in 1..Len(dataset) |-> InvertOfScale(aux.yDom, dataset[i][2])])
        drawn == [i \in 1..Len(dataset) |->
                    [data |-> dataset[i],
                     cx |-> ScaleLinear(minMaxX, <<0, Width>>, dataset[i][1]),
                     cy |-> ScaleLinear(minMaxY, <<Height, 0>>, dataset[i][2])]]
    IN  /\ insKind = "Scatterplot"
        /\ calls < MaxCalls
        /\ aux' = [aux EXCEPT !.xDom = minMaxX, !.yDom = minMaxY]
        /\ layers' = JoinLayer("dot", dataset, drawn)
        /\ sels' = EnterSelection("dot", dataset)
        /\ op' = "setData"
        /\ ret' = "this"
        /\ calls' = calls + 1
        /\ UNCHANGED <<insKind, labelTable, notIns>>

\* Pie.setData: the slices are cut from the arcs d3.pie() makes of the dataset.
PieSetData(dataset) ==
    LET drawn == [i \in 1..Len(dataset) |-> [data |-> dataset[i], arcOf |-> dataset]]
    IN  /\ insKind = "Pie"
        /\ calls < MaxCalls
        /\ aux' = [aux EXCEPT !.pieData = dataset]
        /\ layers' = JoinLayer("slice", dataset, drawn)
        /\ sels' = EnterSelection("slice", dataset)
        /\ op' = "setData"
        /\ ret' = "this"
        /\ calls' = calls + 1
        /\ UNCHANGED <<insKind, labelTable, notIns>>

\* Pie.setSliceLabels: one centroid for every slice the slice selection holds;
\* it throws with no slice selection, and when a label it appends has no centroid.
PieSetSliceLabels(labels) ==
    LET centroids == IF sels.slice.null THEN 0 ELSE Cardinality(sels.slice.at)
        entered == Entered(layers.sliceLabel, labels)
        drawn == [i \in 1..Len(labels) |->
                    [data |-> labels[i], placed |-> i <= centroids]]
    IN  /\ insKind = "Pie"
        /\ calls < MaxCalls
        /\ IF sels.slice.null
           THEN /\ ret' = "TypeError"
                /\ UNCHANGED <<layers, sels>>
           ELSE /\ layers' = JoinLayer("sliceLabel", labels, drawn)
                /\ sels' = EnterSelection("sliceLabel", labels)
                /\ ret' = IF \E i \in entered : i > centroids THEN "TypeError" ELSE "this"
        /\ op' = "setSliceLabels"
        /\ calls' = calls + 1
        /\ UNCHANGED <<insKind, aux, labelTable, notIns>>

\* StarGlyph.setScaleDomains: one scale for every domain.
StarGlyphSetScaleDomains(newDomains) ==
    /\ insKind = "StarGlyph"
    /\ aux' = [aux EXCEPT !.scales = newDomains]
    /\ op' = "setScaleDomains"
    /\ ret' = "this"
    /\ UNCHANGED <<insKind, layers, sels, labelTable, calls, notIns>>

\* StarGlyph.setData: one polygon for the closed dataset; drawing the path of a
\* polygon it appends throws when the chart has no scale.
StarGlyphSetData(dataset) ==
    LET closed == dataset \o <<dataset[1]>>
        entered == Entered(layers.polygon, <<closed>>)
        drawn == <<[data |-> closed, d |-> aux.scales]>>
    IN  /\ insKind = "StarGlyph"
        /\ calls < MaxCalls
        /\ layers' = JoinLayer("polygon", <<closed>>, drawn)
        /\ sels' = EnterSelection("polygon", <<closed>>)
        /\ ret' = IF entered # {} /\ aux.scales = <<>> THEN "TypeError" ELSE "this"
        /\ op' = "setData"
        /\ calls' = calls + 1
        /\ UNCHANGED <<insKind, aux, labelTable, notIns>>

\* StarGlyph.setCornerLabels
StarGlyphSetCornerLabels(labels) ==
    LET drawn == [i \in 1..Len(labels) |->
                    [data |-> labels[i], corner |-> <<i - 1, Len(aux.scales)>>]]
    IN  /\ insKind = "StarGlyph"
        /\ calls < MaxCalls
        /\ layers' = JoinLayer("cornerLabel", labels, drawn)
        /\ sels' = EnterSelection("cornerLabel", labels)
        /\ op' = "setCornerLabels"
        /\ ret' = "this"
        /\ calls' = calls + 1
        /\ UNCHANGED <<insKind, aux, labelTable, notIns>>

\* Map.setMap: one path for every feature, filled by the fill function.
MapSetMap(features) ==
    LET drawn == [i \in 1..Len(features) |-> [data |-> features[i], fill |-> features[i]]]
    IN  /\ insKind = "Map"
        /\ calls < MaxCalls
        /\ aux' = [aux EXCEPT !.fitted = features]
        /\ layers' = JoinLayer("mapPath", features, drawn)
        /\ sels' = EnterSelection("mapPath", features)
        /\ op' = "setMap"
        /\ ret' = "this"
        /\ calls' = calls + 1
        /\ UNCHANGED <<insKind, labelTable, notIns>>

\* _pathSelection.data(dataset).attr("fill", ...): the paths the selection
\* holds that have a datum take it and are filled again.
Refill(layer, sel, dataset) ==
    [k \in 1..Len(layer) |->
        IF k \in sel.at /\ k <= Len(dataset)
        THEN [layer[k] EXCEPT !.data = dataset[k], !.fill = dataset[k]]
        ELSE layer[k]]

\* Map.setData: throws when the chart has no path selection.
MapSetData(dataset) ==
    /\ insKind = "Map"
    /\ calls < MaxCalls
    /\ IF sels.mapPath.null
       THEN /\ ret' = "TypeError"
            /\ UNCHANGED layers
       ELSE /\ layers' = [layers EXCEPT !.mapPath = Refill(@, sels.mapPath, dataset)]
            /\ ret' = "this"
    /\ op' = "setData"
    /\ calls' = calls + 1
    /\ UNCHANGED <<insKind, sels, aux, labelTable, notIns>>

\* Map.setDots with the default cx and cy
MapSetDots(dataset) ==
    LET drawn == [i \in 1..Len(dataset) |->
                    [data |-> dataset[i], fill |-> dataset[i], cx |-> 10, cy |-> 10]]
    IN  /\ insKind = "Map"
        /\ calls < MaxCalls
        /\ layers' = JoinLayer("mapDot", dataset, drawn)
        /\ sels' = EnterSelection("mapDot", dataset)
        /\ op' = "setDots"
        /\ ret' = "this"
        /\ calls' = calls + 1
        /\ UNCHANGED <<insKind, aux, labelTable, notIns>>

\* Correlation.setLabels: a row label and a column label for every name.
CorrelationSetLabels(names) ==
    LET drawn == [i \in 1..Len(names) |-> [data |-> names[i], of |-> Len(names)]]
    IN  /\ insKind = "Correlation"
        /\ calls < MaxCalls
        /\ layers' = [layers EXCEPT !.rowLabel = Join(@, names, drawn),
                                    !.colLabel = Join(@, names, drawn)]
        /\ sels' = [sels EXCEPT !.rowLabel = Selection(Entered(layers.rowLabel, names)),
                                !.colLabel = Selection(Entered(layers.colLabel, names))]
        /\ op' = "setLabels"
        /\ ret' = "this"
        /\ calls' = calls + 1
        /\ UNCHANGED <<insKind, aux, labelTable, notIns>>

\* Correlation.setData: a group for every row of the table of coefficients
\* and, inside every group it appends, an element for every coefficient.
CorrelationSetData(dataset) ==
    LET correlations == Pearson(dataset)
        drawn == [i \in 1..Len(correlations) |->
                    [data |-> correlations[i],
                     children |-> [j \in 1..Len(correlations[i]) |->
                                    [data |-> correlations[i][j]]]]]
    IN  /\ insKind = "Correlation"
        /\ calls < MaxCalls
        /\ layers' = [layers EXCEPT !.ellipseGroup = Join(@, correlations, drawn),
                                    !.rectGroup = Join(@, correlations, drawn)]
        /\ sels' = [sels EXCEPT
                        !.ellipseGroup = Selection(Entered(layers.ellipseGroup, correlations)),
                        !.rectGroup = Selection(Entered(layers.rectGroup, correlations))]
        /\ op' = "setData"
        /\ ret' = "this"
        /\ calls' = calls + 1
        /\ UNCHANGED <<insKind, aux, labelTable, notIns>>

\* The classes whose selection holds the children of the groups it appended.
GroupLayers == {"ellipseGroup", "rectGroup"}

\* remove() on the children of the groups a selection holds.
RemoveChildren(layer, sel) ==
    [k \in 1..Len(layer) |->
        IF k \in sel.at THEN [layer[k] EXCEPT !.children = <<>>] ELSE layer[k]]

\* if (selection) { selection.remove(); selection = null; } for one class
ClearLayer(class) ==
    IF sels[class].null THEN layers[class]
    ELSE IF class \in GroupLayers THEN RemoveChildren(layers[class], sels[class])
    ELSE Remove(layers[class], sels[class])

\* clear() of Histogram, Scatterplot, Pie, StarGlyph, Map and Correlation
InsClear ==
    /\ insKind # "none"
    /\ layers' = [c \in LayersOf(insKind) |-> ClearLayer(c)]
    /\ sels' = [c \in LayersOf(insKind) |-> NoSelection]
    /\ aux' = IF insKind = "Pie" /\ ~sels.slice.null
              THEN [aux EXCEPT !.pieData = NullValue] ELSE aux
    /\ labelTable' = ChartClear(labelTable)
    /\ op' = "clear"
    /\ ret' = "this"
    /\ UNCHANGED <<insKind, calls, notIns>>

InsNext ==
    \/ \E ds \in HistogramPool : HistogramSetData(ds)
    \/ \E ds \in ScatterplotPool : ScatterplotSetData(ds)
    \/ \E ds \in PiePool : PieSetData(ds)
    \/ \E ls \in LabelPool : PieSetSliceLabels(ls)
    \/ \E ds \in DomainsPool : StarGlyphSetScaleDomains(ds)
    \/ \E ds \in StarGlyphPool : StarGlyphSetData(ds)
    \/ \E ls \in LabelPool : StarGlyphSetCornerLabels(ls)
    \/ \E fs \in FeaturesPool : MapSetMap(fs)
    \/ \E ds \in HistogramPool : MapSetData(ds)
    \/ \E ds \in ScatterplotPool : MapSetDots(ds)
    \/ \E ls \in LabelPool : CorrelationSetLabels(ls)
    \/ \E ds \in CorrelationPool : CorrelationSetData(ds)
    \/ InsClear

\* ------------------------------------------- insertion with attributes
\* Values of a field of the attributes parameter: missing, null, the falsy
\* constants 0, "" and false (as the text attr() writes), and a function.
Undefined == [type |-> "undefined", text |-> ""]
AttrValues ==
    {Undefined,
     [type |-> "null", text |-> ""],
     [type |-> "number", text |-> "0"],
     [type |-> "string", text |-> ""],
     [type |-> "boolean", text |-> "false"],
     [type |-> "function", text |-> "f"]}

\* What a caller may put in the class field.
ClassValues == {Undefined, [type |-> "string", text |-> "mine"]}

\* The default an insertion operation passes to addIfNull, and the class it assigns.
DefaultFunction == [type |-> "function", text |-> "default"]
DefaultConstant == [type |-> "string", text |-> "default"]
OwnClass(class) == [type |-> "string", text |-> class]

\* Chart.addIfNull: array[field] == null holds for null and undefined only.
AddIfNull(array, field, value) ==
    IF array[field].type \in {"null", "undefined"}
    THEN [array EXCEPT ![field] = value] ELSE array

\* selection.attr(name, v) for the element of index i: the default's value,
\* the caller's function applied to the index, or the caller's constant.
Applied(v, default, i) ==
    IF v.text = "default" THEN [by |-> "default", val |-> default]
    ELSE IF v.type = "function" THEN [by |-> "caller", val |-> <<v.text, i>>]
    ELSE [by |-> "caller", val |-> v.text]

\* The attributes of Scatterplot.setData after its mandatory attributes.
ScatterplotAttributes(attributes) ==
    LET a1 == AddIfNull(attributes, "id", DefaultFunction)
        a2 == [a1 EXCEPT !.class = OwnClass("dot")]
        a3 == AddIfNull(a2, "cx", DefaultFunction)
        a4 == AddIfNull(a3, "cy", DefaultFunction)
    IN  AddIfNull(a4, "r", DefaultConstant)

\* The number whose image by the scale a cx or cy function returns: the
\* datum's coordinate for the default, the index for the caller's function
\* (the function of the README, (d, i) => scale(i)).
Coordinate(v, datum, i) == IF v.text = "default" THEN datum ELSE i

\* Scatterplot.setData(dataset, attributes) on a new scatterplot
ScatterplotSetDataWith(dataset, attributes) ==
    LET a == ScatterplotAttributes(attributes)
        n == Len(dataset)
        xs == [i \in 1..n |-> Coordinate(a.cx, dataset[i][1], i - 1)]
        ys == [i \in 1..n |-> Coordinate(a.cy, dataset[i][2], i - 1)]
        minMaxX == Extent([i \in 1..n |-> InvertOfScale(aux.xDom, xs[i])])
        minMaxY == Extent([i \in 1..n |-> InvertOfScale(aux.yDom, ys[i])])
        Position(v, at) ==
            [by |-> IF v.text = "default" THEN "default" ELSE "caller", val |-> at]
        drawn == [i \in 1..n |->
                    [data |-> dataset[i],
                     id |-> Applied(a.id, <<"dot", i - 1>>, i - 1),
                     class |-> [by |-> "chart", val |-> a.class.text],
                     cx |-> Position(a.cx, ScaleLinear(minMaxX, <<0, Width>>, xs[i])),
                     cy |-> Position(a.cy, ScaleLinear(minMaxY, <<Height, 0>>, ys[i])),
                     r |-> Applied(a.r, "4px", i - 1)]]
    IN  /\ insKind = "Scatterplot"
        /\ calls = 0
        /\ staticArgs' = attributes
        /\ IF a.cx.type # "function" \/ a.cy.type # "function"
           THEN /\ ret' = "TypeError"
                /\ UNCHANGED <<aux, layers, sels>>
           ELSE /\ aux' = [aux EXCEPT !.xDom = minMaxX, !.yDom = minMaxY]
                /\ layers' = JoinLayer("dot", dataset, drawn)
                /\ sels' = EnterSelection("dot", dataset)
                /\ ret' = "this"
        /\ op' = "setData"
        /\ calls' = calls + 1
        /\ UNCHANGED <<insKind, labelTable, staticResult,
                       segVars, pearsonVars, ctorVars, accVars>>

\* The attributes of Histogram.setData after its mandatory attributes.
HistogramAttributes(attributes) ==
    LET a1 == AddIfNull(attributes, "id", DefaultFunction)
        a2 == [a1 EXCEPT !.class = OwnClass("column")]
        a3 == AddIfNull(a2, "x", DefaultFunction)
        a4 == AddIfNull(a3, "y", DefaultFunction)
        a5 == AddIfNull(a4, "width", DefaultConstant)
    IN  AddIfNull(a5, "height", DefaultFunction)

\* a - b for two fractions
FracMinus(a, b) == Frac(a[1] * b[2] - b[1] * a[2], a[2] * b[2])

\* What the Histogram constructor sets up: an ordinal axis scale with no
\* domain, a linear _xScale of domain and range [0, 1], a y scale of domain [0, 1].
HistogramAux ==
    [axisDom |-> <<>>, xDom |-> <<0, 1>>, xRange |-> <<0, 1>>, yDom |-> <<0, 1>>]

\* Histogram.xAxisScale(scale) before any data is inserted
HistogramXAxisScale(scale) ==
    LET len == Len(scale.dom)
    IN  /\ insKind = "Histogram"
        /\ calls = 0
        /\ aux' = [aux EXCEPT !.axisDom = scale.dom,
                              !.xDom = <<0, len - 3>>,
                              !.xRange = <<scale.range[2], scale.range[len - 1]>>]
        /\ op' = "xAxisScale"
        /\ ret' = "this"
        /\ UNCHANGED <<insKind, layers, sels, labelTable, calls, staticVars,
                       segVars, pearsonVars, ctorVars, accVars>>

\* Histogram.setData(dataset, attributes) on a histogram with no column
HistogramSetDataWith(dataset, attributes) ==
    LET a == HistogramAttributes(attributes)
        colWidth == Frac(Width, Len(aux.axisDom) - 1)
        yDom == <<0, SetMax(Range(dataset))>>
        Y(d) == ScaleLinear(yDom, <<Height, 0>>, d)
        drawn == [i \in 1..Len(dataset) |->
                    [data |-> dataset[i],
                     id |-> Applied(a.id, <<"col", i>>, i - 1),
                     class |-> [by |-> "chart", val |-> a.class.text],
                     x |-> Applied(a.x, FracMinus(ScaleLinear(aux.xDom, aux.xRange, i - 1),
                                                  Frac(colWidth[1], 2 * colWidth[2])), i - 1),
                     y |-> Applied(a.y, Y(dataset[i]), i - 1),
                     width |-> Applied(a.width, colWidth, i - 1),
                     height |-> Applied(a.height, FracMinus(FInt(Height), Y(dataset[i])), i - 1)]]
    IN  /\ insKind = "Histogram"
        /\ calls = 0
        /\ staticArgs' = attributes
        /\ aux' = [aux EXCEPT !.yDom = yDom]
        /\ layers' = JoinLayer("column", dataset, drawn)
        /\ sels' = EnterSelection("column", dataset)
        /\ op' = "setData"
        /\ ret' = "this"
        /\ calls' = calls + 1
        /\ UNCHANGED <<insKind, labelTable, staticResult,
                       segVars, pearsonVars, ctorVars, accVars>>

ScatterplotFields == {"id", "class", "cx", "cy", "r"}
HistogramFields == {"id", "class", "x", "y", "width", "height"}

\* The attributes parameters tried: any value for the defaulted fields, with
\* or without a class of the caller's.
AttributesOver(fields) ==
    {a \in [fields -> AttrValues \cup ClassValues] :
        /\ a.class \in ClassValues
        /\ \A f \in fields \ {"class"} : a[f] \in AttrValues}

AttrInit ==
    /\ insKind \in {"Scatterplot", "Histogram"}
    /\ layers = [c \in LayersOf(insKind) |-> <<>>]
    /\ sels = [c \in LayersOf(insKind) |-> NoSelection]
    /\ aux = IF insKind = "Histogram" THEN HistogramAux ELSE AuxOf(insKind)

\* A new chart takes one insertion; the axis scale may be set before it.
AttrNext ==
    \/ /\ insKind = "Scatterplot" /\ calls = 0
       /\ \E ds \in ScatterplotPool, a \in AttributesOver(ScatterplotFields) :
                ScatterplotSetDataWith(ds, a)
    \/ /\ insKind = "Histogram" /\ calls = 0
       /\ \E s \in AxisScalePool : HistogramXAxisScale(s)
    \/ /\ insKind = "Histogram" /\ calls = 0
       /\ \E ds \in ColumnsPool, a \in AttributesOver(HistogramFields) :
                HistogramSetDataWith(ds, a)

\* ------------------------------------------------- static helpers of Chart
StaticIdle ==
    /\ staticArgs = <<>>
    /\ staticResult = <<>>

\* A floating-point value: a number (an exact fraction here), NaN or an infinity.
Number(n, d) == [kind |-> "number", val |-> Frac(n, d)]
NaN == [kind |-> "NaN", val |-> <<0, 0>>]
Infinity(sgn) == [kind |-> "Infinity", val |-> <<sgn, 0>>]

\* n / d in floating point: 0/0 is NaN, anything else over 0 an infinity.
Quotient(n, d) ==
    IF d # 0 THEN Number(n, d)
    ELSE IF n = 0 THEN NaN
    ELSE Infinity(Sign(n))

\* start + q
Plus(start, q) ==
    IF q.kind = "number" THEN Number(start * q.val[2] + q.val[1], q.val[2]) ELSE q

\* Chart.genSequence: the loop runs for i = 0 .. size - 1 after size--.
GenSequence(start, size, end) ==
    LET last == size - 1
    IN  [k \in 1..(last + 1) |-> Plus(start, Quotient((k - 1) * (end - start), last))]

GenSequenceCall(start, size, end) ==
    /\ staticArgs' = <<start, size, end>>
    /\ staticResult' = GenSequence(start, size, end)
    /\ op' = "genSequence"
    /\ UNCHANGED <<labelTable, ret, calls, notStatic>>

\* The first and the last value asked are drawn from -2 .. 3.
GenNext == \E start \in (0 - 2)..3, size \in 1..MaxSize, end \in (0 - 2)..3 :
                GenSequenceCall(start, size, end)

\* --------------------------------------------------------- fill functions
\* The colour members the default fill functions read.
ColourFields == {"colorScale", "colorScheme", "fillValue"}

\* The fill function the constructor installs, the one fillFunction(null)
\* installs, and a caller's.
ConstructorFill == [origin |-> "constructor", ref |-> "default"]
ResetFill == [origin |-> "reset", ref |-> "default"]
CallerFill(v) == [origin |-> "caller", ref |-> v.ref]

\* The colour scale of a new Scatterplot: domain genSequence(0, 10, 9).
CategoryScale ==
    [ref |-> "colorScale", dom |-> GenSequence(0, 10, 9),
     range |-> [k \in 1..10 |-> <<"schemeCategory10", k - 1>>]]

FillInit ==
    /\ accKind \in {"Map", "Scatterplot"}
    /\ insKind = accKind
    /\ members =
        IF accKind = "Map"
        THEN [m \in ColourFields \cup {"fillFunction"} |->
                IF m = "fillFunction" THEN ConstructorFill ELSE InitialMember(m)]
        ELSE [m \in {"colorScale", "fillFunction"} |->
                IF m = "fillFunction" THEN ConstructorFill ELSE CategoryScale]
    /\ call = [mode |-> "none"]
    /\ layers = [c \in LayersOf(insKind) |-> <<>>]
    /\ sels = [c \in LayersOf(insKind) |-> NoSelection]
    /\ aux = AuxOf(insKind)

\* (d, i) => this._colorScheme(this._colorScale(this._fillValue(d, i)))
MapDefaultFill(ms, d, i) ==
    [scheme |-> ms.colorScheme.ref, scale |-> ms.colorScale.ref,
     value |-> <<ms.fillValue.ref, d, i>>]

\* (d, i) => this._colorScale(i % this._colorScale.domain().length)
ScatterplotDefaultFill(ms, d, i) ==
    [scale |-> ms.colorScale.ref, index |-> i % Len(ms.colorScale.dom)]

\* this._fillFunction(d, i), evaluated with the members as they are now.
FillOf(kind, ms, d, i) ==
    LET fn == ms.fillFunction
    IN  IF fn.origin = "caller" THEN [by |-> fn.ref, d |-> d, i |-> i]
        ELSE IF fn.origin = "constructor"
        THEN (IF kind = "Map" THEN MapDefaultFill(ms, d, i)
              ELSE ScatterplotDefaultFill(ms, d, i))
        ELSE (IF kind = "Map" THEN MapDefaultFill(ms, d, i)
              ELSE ScatterplotDefaultFill(ms, d, i))

\* A slip: fillFunction leaving the dots as they are filled.
RefillDotsForgotten(layer, sel, ms) == layer

\* this._dotSelection.attr("fill", ...) when there is a dot selection
RefillDots(layer, sel, ms) ==
    IF sel.null THEN layer
    ELSE [k \in 1..Len(layer) |->
            IF k \in sel.at
            THEN [layer[k] EXCEPT !.fill = FillOf("Scatterplot", ms, layer[k].data, k - 1)]
            ELSE layer[k]]

\* fillFunction(func): func is a function, null, or missing.
FillFunction(arg) ==
    LET fn == IF arg.mode = "set" THEN CallerFill(arg.arg) ELSE ResetFill
        ms == [members EXCEPT !.fillFunction = fn]
    IN  /\ accKind \in {"Map", "Scatterplot"}
        /\ call' = [arg EXCEPT !.field = "fillFunction"]
        /\ op' = "fillFunction"
        /\ IF arg.mode = "get"
           THEN /\ ret' = members.fillFunction
                /\ UNCHANGED <<members, layers>>
           ELSE /\ members' = ms
                /\ ret' = "this"
                /\ layers' = IF accKind = "Scatterplot"
                             THEN [layers EXCEPT !.dot = RefillDots(@, sels.dot, ms)]
                             ELSE layers
        /\ UNCHANGED <<accKind, insKind, sels, aux, labelTable, calls,
                       segVars, pearsonVars, ctorVars, staticVars>>

FillArgs ==
    {[mode |-> "set", field |-> "", arg |-> v] : v \in ValuePool}
        \cup {[mode |-> "reset", field |-> ""], [mode |-> "get", field |-> ""]}

\* Map.setMap, every appended path filled by the fill function
MapSetMapFilled(features) ==
    LET drawn == [i \in 1..Len(features) |->
                    [data |-> features[i],
                     fill |-> FillOf("Map", members, features[i], i - 1)]]
    IN  /\ insKind = "Map"
        /\ calls < MaxCalls
        /\ aux' = [aux EXCEPT !.fitted = features]
        /\ layers' = JoinLayer("mapPath", features, drawn)
        /\ sels' = EnterSelection("mapPath", features)
        /\ op' = "setMap"
        /\ ret' = "this"
        /\ calls' = calls + 1
        /\ UNCHANGED <<insKind, labelTable, accVars,
                       segVars, pearsonVars, ctorVars, staticVars>>

\* Scatterplot.setData, every appended dot filled by the fill function
ScatterplotSetDataFilled(dataset) ==
    LET minMaxX == Extent([i \in 1..Len(dataset) |-> InvertOfScale(aux.xDom, dataset[i][1])])
        minMaxY == Extent([i \in 1..Len(dataset) |-> InvertOfScale(aux.yDom, dataset[i][2])])
        drawn == [i \in 1..Len(dataset) |->
                    [data |-> dataset[i],
                     fill |-> FillOf("Scatterplot", members, dataset[i], i - 1)]]
    IN  /\ insKind = "Scatterplot"
        /\ calls < MaxCalls
        /\ aux' = [aux EXCEPT !.xDom = minMaxX, !.yDom = minMaxY]
        /\ layers' = JoinLayer("dot", dataset, drawn)
        /\ sels' = EnterSelection("dot", dataset)
        /\ op' = "setData"
        /\ ret' = "this"
        /\ calls' = calls + 1
        /\ UNCHANGED <<insKind, labelTable, accVars,
                       segVars, pearsonVars, ctorVars, staticVars>>

\* ------------------------------------------------ colours of a histogram
HistogramColourInit ==
    /\ accKind = "Histogram"
    /\ insKind = "Histogram"
    /\ members = [m \in {"colorScale"} |-> CategoryScale]
    /\ call = [mode |-> "none"]
    /\ layers = [c \in LayersOf(insKind) |-> <<>>]
    /\ sels = [c \in LayersOf(insKind) |-> NoSelection]
    /\ aux = AuxOf(insKind)

\* thisChart._colorScale(i % thisChart._colorScale.domain().length)
ColumnFill(scale, i) == [scale |-> scale.ref, index |-> i % Len(scale.dom)]

\* this._colorScale(i % scale.range().length)
ColumnRefill(scale, i) == [scale |-> scale.ref, index |-> i % Len(scale.range)]

\* Histogram.setData, every appended column filled by the colour scale
HistogramSetDataFilled(dataset) ==
    LET yDom == <<0, SetMax(Range(dataset))>>
        drawn == [i \in 1..Len(dataset) |->
                    [data |-> dataset[i],
                     fill |-> ColumnFill(members.colorScale, i - 1)]]
    IN  /\ insKind = "Histogram"
        /\ calls < MaxCalls
        /\ aux' = [aux EXCEPT !.yDom = yDom]
        /\ layers' = JoinLayer("column", dataset, drawn)
        /\ sels' = EnterSelection("column", dataset)
        /\ op' = "setData"
        /\ ret' = "this"
        /\ calls' = calls + 1
        /\ UNCHANGED <<insKind, labelTable, accVars,
                       segVars, pearsonVars, ctorVars, staticVars>>

\* Histogram.colorScale(scale) with a scale: the columns of the selection are
\* filled again.
HistogramColorScale(scale) ==
    /\ accKind = "Histogram"
    /\ members' = [members EXCEPT !.colorScale = scale]
    /\ layers' =
        IF sels.column.null THEN layers
        ELSE [layers EXCEPT !.column =
                [k \in 1..Len(@) |->
                    IF k \in sels.column.at
                    THEN [@[k] EXCEPT !.fill = ColumnRefill(scale, k - 1)]
                    ELSE @[k]]]
    /\ call' = [mode |-> "set", field |-> "colorScale", arg |-> scale]
    /\ op' = "colorScale"
    /\ ret' = "this"
    /\ UNCHANGED <<accKind, insKind, sels, aux, labelTable, calls,
                   segVars, pearsonVars, ctorVars, staticVars>>

HistogramColourNext ==
    \/ \E ds \in ColumnsPool : HistogramSetDataFilled(ds)
    \/ \E s \in ColourScalePool : HistogramColorScale(s)

\* colorScale(v), colorScheme(v), fillValue(v): they store v and fill nothing.
ColourMutate(field, v) ==
    /\ field \in DOMAIN members
    /\ Mutate(field, v)

FillNext ==
    \/ \E a \in FillArgs : FillFunction(a)
    \/ \E f \in ColourFields, v \in ValuePool : ColourMutate(f, v)
    \/ \E fs \in FeaturesPool : MapSetMapFilled(fs)
    \/ \E ds \in ScatterplotPool : ScatterplotSetDataFilled(ds)

\* ------------------------------------- src/Scatterplot.js: xScale, yScale
\* An axis: the scale it is bound to and the domain its group shows.
Axis(scale) == [scale |-> scale.ref, shown |-> scale.dom]

\* The axes the constructor of src/Scatterplot.js makes.
AxesOf(field) ==
    IF field = "xScale" THEN {"xAxisTop", "xAxisBottom"} ELSE {"yAxisLeft", "yAxisRight"}

ScatterplotJsInit ==
    /\ accKind = "Scatterplot"
    /\ members =
        [m \in {"xScale", "yScale", "xAxisTop", "xAxisBottom", "yAxisLeft", "yAxisRight"} |->
            IF m \in {"xScale", "yScale"} THEN InitialMember(m)
            ELSE IF m \in AxesOf("xScale") THEN Axis(InitialMember("xScale"))
            ELSE Axis(InitialMember("yScale"))]
    /\ call = [mode |-> "none"]

\* xScale(scale), yScale(scale) with a scale: the scale is stored and its
\* domain set to its extent; axis.scale(scale) then throws when the member
\* passed as the axis does not exist. Both accessors pass the "left" axis of
\* their dimension to Chart.adjustScaleDomain, twice each.
ScatterplotJsScale(field, scale) ==
    LET adjusted == AdjustScaleDomain(scale, Extent(scale.dom))
        axis == IF field = "xScale" THEN "xAxisLeft" ELSE "yAxisLeft"
    IN  /\ accKind = "Scatterplot"
        /\ field \in {"xScale", "yScale"}
        /\ IF axis \in DOMAIN members
           THEN /\ members' = [members EXCEPT ![field] = adjusted, ![axis] = Axis(adjusted)]
                /\ ret' = "this"
           ELSE /\ members' = [members EXCEPT ![field] = adjusted]
                /\ ret' = "TypeError"
        /\ call' = [mode |-> "set", field |-> field, arg |-> scale]
        /\ op' = field
        /\ UNCHANGED <<accKind, labelTable, calls, notAcc>>

\* xScale(), yScale() with no argument
ScatterplotJsGet(field) ==
    /\ accKind = "Scatterplot"
    /\ field \in {"xScale", "yScale"}
    /\ ret' = members[field]
    /\ call' = [mode |-> "get", field |-> field]
    /\ op' = field
    /\ UNCHANGED <<accKind, members, labelTable, calls, notAcc>>

ScatterplotJsNext ==
    \/ \E f \in {"xScale", "yScale"}, s \in LinearScalePool : ScatterplotJsScale(f, s)
    \/ \E f \in {"xScale", "yScale"} : ScatterplotJsGet(f)

\* -------------------------------------------------------- specifications
InitSeg == ComInit /\ SegInit /\ PearsonIdle /\ CtorIdle /\ AccIdle /\ InsIdle /\ StaticIdle
SpecSeg == InitSeg /\ [][SegNext]_vars

InitPearson == ComInit /\ SegInit /\ PearsonInit /\ CtorIdle /\ AccIdle /\ InsIdle /\ StaticIdle
SpecPearson == InitPearson /\ [][PearsonNext]_vars

InitCtor == ComInit /\ SegInit /\ PearsonIdle /\ CtorIdle /\ AccIdle /\ InsIdle /\ StaticIdle
SpecCtor == InitCtor /\ [][CtorNext]_vars

InitAcc == ComInit /\ SegInit /\ PearsonIdle /\ CtorIdle /\ AccInit /\ InsIdle /\ StaticIdle
SpecAcc == InitAcc /\ [][AccNext]_vars

InitIns == ComInit /\ SegInit /\ PearsonIdle /\ CtorIdle /\ AccIdle /\ InsInit /\ StaticIdle
SpecIns == InitIns /\ [][InsNext]_vars

InitGen ==
    ComInit /\ SegInit /\ PearsonIdle /\ CtorIdle /\ AccIdle /\ InsIdle /\ StaticIdle
SpecGen == InitGen /\ [][GenNext]_vars

InitAttr ==
    ComInit /\ SegInit /\ PearsonIdle /\ CtorIdle /\ AccIdle /\ AttrInit /\ StaticIdle
SpecAttr == InitAttr /\ [][AttrNext]_vars

InitFill ==
    ComInit /\ SegInit /\ PearsonIdle /\ CtorIdle /\ FillInit /\ StaticIdle
SpecFill == InitFill /\ [][FillNext]_vars

InitHistogramColour ==
    ComInit /\ SegInit /\ PearsonIdle /\ CtorIdle /\ HistogramColourInit /\ StaticIdle
SpecHistogramColour == InitHistogramColour /\ [][HistogramColourNext]_vars

InitScatterplotJs ==
    ComInit /\ SegInit /\ PearsonIdle /\ CtorIdle /\ ScatterplotJsInit /\ InsIdle /\ StaticIdle
SpecScatterplotJs == InitScatterplotJs /\ [][ScatterplotJsNext]_vars

\* One chart of any of the seven classes, with a label table attached at will.
ChartsNext ==
    \/ insKind = "none" /\ SegNext
    \/ insKind # "none" /\ InsNext
    \/ insKind # "none" /\ \E t \in TablePool : SegLabelTable(t)
SpecCharts == (InitSeg \/ InitIns) /\ [][ChartsNext]_vars

\* --------------------------------------------------------------- claims
InsertOps == {"setSegments", "setDots", "setRanges"}

SegFresh(e) == e.d = SegPath(yScale.dom, e.data)
RangeFresh(e) == e.d = RangePath(yScale.dom, e.data)
CircleFresh(c) == c.cy = ScaleY(yScale.dom, c.data)
GroupFresh(g) == \A i \in 1..Len(g.circles) : CircleFresh(g.circles[i])

\* C1: while the y scale is the one the constructor made, its domain is
\* [min(0, every value inserted so far), max(1, every value inserted so far)]:
\* each insertion call extends the previous domain, which starts at [0, 1],
\* by the extent of its dataset, so the domain never shrinks and contains
\* every inserted value.
C1_DomainIsHullOfInserted ==
    yScale.id = 0 =>
        /\ yScale.dom = <<SetMin(inserted \cup {0}), SetMax(inserted \cup {1})>>
        /\ \A v \in inserted : yScale.dom[1] <= v /\ v <= yScale.dom[2]

C1_Witness ==
    /\ yScale.id = 0
    /\ calls = MaxCalls
    /\ yScale.dom[1] < 0
    /\ yScale.dom[2] > 2

\* C2: when setSegments, setDots or setRanges returns, the elements it has
\* plotted and the elements held in the selections of the two other kinds are
\* all drawn at the positions the current y-scale domain gives them.
C2_SelectionsDrawnAtCurrentDomain ==
    op \in InsertOps =>
        /\ \A k \in segSel.at : SegFresh(segLayer[k])
        /\ \A k \in dotSel.at : GroupFresh(dotLayer[k])
        /\ \A k \in rangeSel.at : RangeFresh(rangeLayer[k])

\* An earlier series is redrawn by a later call that changes the domain.
C2_Witness ==
    /\ op = "setSegments"
    /\ segSel.at # {}
    /\ dotSel.at # {}
    /\ yScale.dom = <<0 - 1, 2>>
    /\ dotLayer[1].data = <<0, 2>>

\* C3: after any sequence of setSegments, setDots and setRanges calls every
\* element still in the chart is drawn at the position the current y-scale
\* domain gives it.
C3_EveryElementDrawnAtCurrentDomain ==
    (op \in InsertOps /\ yScale.id = 0) =>
        /\ \A k \in 1..Len(segLayer) : SegFresh(segLayer[k])
        /\ \A k \in 1..Len(dotLayer) : GroupFresh(dotLayer[k])
        /\ \A k \in 1..Len(rangeLayer) : RangeFresh(rangeLayer[k])

\* The textbook coefficient of columns i and j from the raw sums:
\* (n Sxy - Sx Sy) / sqrt((n Sxx - Sx^2) (n Syy - Sy^2)).
RECURSIVE SumColumn(_, _, _)
SumColumn(dataset, i, k) ==
    IF k > Len(dataset) THEN 0 ELSE dataset[k][i] + SumColumn(dataset, i, k + 1)

RECURSIVE SumProducts(_, _, _, _)
SumProducts(dataset, i, j, k) ==
    IF k > Len(dataset) THEN 0
    ELSE dataset[k][i] * dataset[k][j] + SumProducts(dataset, i, j, k + 1)

PearsonCoefficient(dataset, i, j) ==
    LET n == Len(dataset)
        sx == SumColumn(dataset, i, 1)
        sy == SumColumn(dataset, j, 1)
        num == n * SumProducts(dataset, i, j, 1) - sx * sy
        vx == n * SumProducts(dataset, i, i, 1) - sx * sx
        vy == n * SumProducts(dataset, j, j, 1) - sy * sy
    IN  DivSqrt(FInt(num), FInt(vx * vy))

ConstantColumn(dataset, i) == \A r \in 1..Len(dataset) : dataset[r][i] = dataset[1][i]

\* C4: pearson(dataset) of n rows and m columns is the m-by-m table whose
\* entry [i][j] is the Pearson coefficient of columns i and j.
C4_PearsonIsCoefficientTable ==
    op = "pearson" =>
        LET m == Len(pearsonIn[1])
        IN  /\ Len(pearsonOut) = m
            /\ \A i \in 1..m :
                /\ Len(pearsonOut[i]) = m
                /\ \A j \in 1..m : pearsonOut[i][j] = PearsonCoefficient(pearsonIn, i, j)

\* Two columns that are neither constant nor perfectly correlated.
C4_Witness ==
    /\ op = "pearson"
    /\ Len(pearsonIn) = 3
    /\ Len(pearsonOut) = 2
    /\ pearsonOut[1][2].kind = "number"
    /\ pearsonOut[1][2].sgn = 0 - 1
    /\ pearsonOut[1][2].sq = <<1, 4>>

\* C5: when no column is constant the table is symmetric, its diagonal is 1
\* and every entry lies in [-1, 1].
C5_SymmetricUnitDiagonalBounded ==
    (op = "pearson" /\ \A i \in 1..Len(pearsonIn[1]) : ~ConstantColumn(pearsonIn, i)) =>
        \A i, j \in 1..Len(pearsonOut) :
            /\ pearsonOut[i][j] = pearsonOut[j][i]
            /\ pearsonOut[i][j].kind = "number"
            /\ pearsonOut[i][j].sq[1] <= pearsonOut[i][j].sq[2]
            /\ i = j => (pearsonOut[i][j].sgn = 1 /\ pearsonOut[i][j].sq = <<1, 1>>)

C5_Witness ==
    /\ op = "pearson"
    /\ Len(pearsonOut) = 2
    /\ \A i \in 1..2 : ~ConstantColumn(pearsonIn, i)
    /\ pearsonOut[1][2].sgn = 1
    /\ pearsonOut[1][2].sq = <<1, 4>>

\* C6: the constructor gives margins of 10 for null, m on all sides for a
\* number m, the object itself otherwise; position (0, 0) for null or a
\* non-object; the total size from the container when dimensions is null; the
\* inner size is the total size minus the margins; and the Chart constructor
\* translates the group by (left margin + x, top margin + y).
C6_ConstructorGeometry ==
    chart.kind # "none" =>
        LET a == ctorArgs
            m == chart.margins
            totalWidth == IF a.dimensions.type = "null" THEN a.container.width
                          ELSE a.dimensions.width
            totalHeight == IF a.dimensions.type = "null" THEN a.container.height
                           ELSE a.dimensions.height
        IN  /\ a.margins.type = "null" =>
                (m.left = 10 /\ m.right = 10 /\ m.top = 10 /\ m.bottom = 10)
            /\ a.margins.type = "number" =>
                (\A side \in {m.left, m.right, m.top, m.bottom} : side = a.margins.value)
            /\ a.margins.type = "object" =>
                (m.left = a.margins.left /\ m.right = a.margins.right
                 /\ m.top = a.margins.top /\ m.bottom = a.margins.bottom)
            /\ a.position.type # "object" => (chart.x = 0 /\ chart.y = 0)
            /\ a.position.type = "object" => (chart.x = a.position.x /\ chart.y = a.position.y)
            /\ chart.width = totalWidth - m.left - m.right
            /\ chart.height = totalHeight - m.top - m.bottom
            /\ chart.kind \notin {"Pie", "StarGlyph"} =>
                chart.transform = <<Frac(m.left + chart.x, 1), Frac(m.top + chart.y, 1)>>

\* The README example: new Scatterplot(svg 600x400, id, null, 20, null).
C6_Witness ==
    /\ chart.kind = "Scatterplot"
    /\ ctorArgs.container = [width |-> 600, height |-> 400]
    /\ ctorArgs.position = NullValue
    /\ ctorArgs.margins = [type |-> "number", value |-> 20]
    /\ ctorArgs.dimensions = NullValue
    /\ chart.width = 560
    /\ chart.height = 360
    /\ chart.transform = <<<<20, 1>>, <<20, 1>>>>

\* The accessor/mutator pairs C8 lists: every pair but Segments.xAxisScale.
ListedPair(kind, field) == ~(kind = "Segments" /\ field = "xAxisScale")

\* The object the member behind an accessor holds.
Stored(ms, table, field) == IF field = "labelTable" THEN [ref |-> table] ELSE ms[field]

\* C8: for each listed pair, a call with
\* an object v stores v and the call with no argument that follows returns v, and a call with no argument changes no member.
C8_AccessorReturnsWhatMutatorStored ==
    [][/\ (call'.mode = "set" /\ ListedPair(accKind, call'.field))
           => Stored(members', labelTable', call'.field).ref = call'.arg.ref
       /\ (call.mode = "set" /\ call'.mode = "get" /\ call'.field = call.field
            /\ ListedPair(accKind, call.field))
           => ret'.ref = call.arg.ref
       /\ call'.mode = "get" => (members' = members /\ labelTable' = labelTable)]_vars

C8_Witness ==
    /\ accKind = "Scatterplot"
    /\ call = [mode |-> "get", field |-> "xScale"]
    /\ ret.ref = "v2"
    /\ members.yScale.ref = "v1"

\* C9: Segments.xAxisScale() with no argument returns the scale most recently
\* installed through xAxisScale(scale), or the initial axis scale.
C9_XAxisScaleReturnsAxisScale ==
    (accKind = "Segments" /\ call.mode = "get" /\ call.field = "xAxisScale")
        => ret = members.xAxisScale

\* The data-insertion operations C7 lists, for the charts of InsKinds.
InsertionOps == {"setData", "setMap", "setDots"}

\* C7: every data-insertion operation returns the chart it was called on.
C7_InsertionReturnsChart ==
    (insKind # "none" /\ op \in InsertionOps) => ret = "this"

\* The elements plotted in a layer: its elements, or the children of its groups.
RECURSIVE ChildrenFrom(_, _)
ChildrenFrom(layer, k) ==
    IF k > Len(layer) THEN <<>> ELSE layer[k].children \o ChildrenFrom(layer, k + 1)

Plotted(class) ==
    IF class \in GroupLayers THEN ChildrenFrom(layers[class], 1) ELSE layers[class]

\* C10: after clear() no plotted element remains in the chart's group.
C10_ClearRemovesEveryPlotting ==
    (insKind # "none" /\ op = "clear")
        => \A c \in LayersOf(insKind) : Plotted(c) = <<>>

\* clear() called again in the current state would leave every plotted
\* element where it is.
SegClearChangesNothing ==
    /\ (dotSel.null \/ RemoveCircles(dotLayer, dotSel) = dotLayer)
    /\ (segSel.null \/ Remove(segLayer, segSel) = segLayer)
    /\ (rangeSel.null \/ Remove(rangeLayer, rangeSel) = rangeLayer)

InsClearChangesNothing ==
    /\ \A c \in LayersOf(insKind) : ClearLayer(c) = layers[c]
    /\ (insKind = "Pie" => (sels.slice.null \/ aux.pieData = NullValue))

Minus(b, a) ==
    IF a.kind = "number" /\ b.kind = "number"
    THEN Number(b.val[1] * a.val[2] - a.val[1] * b.val[2], b.val[2] * a.val[2])
    ELSE NaN

\* a === b in floating point: NaN equals nothing.
SameNumber(a, b) == a.kind # "NaN" /\ a = b

\* C12: genSequence(start, size, end) has size values, the first is start,
\* the last is end, and consecutive values differ by the same amount.
C12_GenSequenceEquallySpaced ==
    op = "genSequence" =>
        LET start == staticArgs[1]
            size == staticArgs[2]
            end == staticArgs[3]
            out == staticResult
        IN  /\ Len(out) = size
            /\ SameNumber(out[1], Number(start, 1))
            /\ SameNumber(out[size], Number(end, 1))
            /\ \A k \in 2..size : \A j \in 2..size :
                    SameNumber(Minus(out[k], out[k - 1]), Minus(out[j], out[j - 1]))

\* The elements the last insertion plotted.
PlottedAll == IF insKind = "Histogram" THEN layers.column ELSE layers.dot

DefaultedFields == (IF insKind = "Histogram" THEN HistogramFields ELSE ScatterplotFields) \ {"class"}

\* C13: a value the caller supplies for a defaulted attribute, 0, "" and
\* false included, is the one applied to every plotted element; the default
\* is applied only for null or undefined; the class is always the chart's own.
C13_CallerValuePrevails ==
    (insKind # "none" /\ op = "setData") =>
        /\ Len(PlottedAll) > 0
        /\ \A i \in 1..Len(PlottedAll) :
            /\ PlottedAll[i].class =
                    [by |-> "chart", val |-> IF insKind = "Histogram" THEN "column" ELSE "dot"]
            /\ \A f \in DefaultedFields :
                    IF staticArgs[f].type \in {"null", "undefined"}
                    THEN PlottedAll[i][f].by = "default"
                    ELSE /\ PlottedAll[i][f].by = "caller"
                         /\ staticArgs[f].type # "function"
                                => PlottedAll[i][f].val = staticArgs[f].text

Constants == {"number", "string", "boolean"}

\* C14: Scatterplot.setData with a constant cx or cy completes, plots the
\* dots and applies the constant to every dot.
C14_ConstantPositionAccepted ==
    (insKind = "Scatterplot" /\ op = "setData"
     /\ (staticArgs.cx.type \in Constants \/ staticArgs.cy.type \in Constants)) =>
        /\ ret = "this"
        /\ layers.dot # <<>>
        /\ \A i \in 1..Len(layers.dot) : \A f \in {"cx", "cy"} :
                staticArgs[f].type \in Constants
                    => layers.dot[i][f] = [by |-> "caller", val |-> staticArgs[f].text]

DrawnClass == IF insKind = "Map" THEN "mapPath" ELSE "dot"

\* C15: fillFunction(f) installs f and returns the chart; fillFunction(null)
\* returns the chart and leaves a fill function that fills as the one of a
\* chart never set does, with the colour members current when it draws;
\* fillFunction() returns the fill function and changes nothing.
C15_FillFunctionSetResetGet ==
    [][/\ (op' = "fillFunction" /\ call'.mode = "set")
            => /\ ret' = "this"
               /\ members'.fillFunction = CallerFill(call'.arg)
       /\ (op' = "fillFunction" /\ call'.mode = "reset")
            => /\ ret' = "this"
               /\ \A d \in (IF insKind = "Map" THEN {"f1"} ELSE {<<0, 2>>}), i \in 0..2 :
                     FillOf(insKind, members', d, i)
                        = (IF insKind = "Map" THEN MapDefaultFill(members', d, i)
                           ELSE ScatterplotDefaultFill(members', d, i))
               /\ insKind = "Scatterplot" =>
                     \A k \in 1..Len(layers'.dot) : k \in sels'.dot.at =>
                        layers'.dot[k].fill
                            = ScatterplotDefaultFill(members', layers'.dot[k].data, k - 1)
       /\ (op' = "fillFunction" /\ call'.mode = "get")
            => /\ ret' = members.fillFunction
               /\ members' = members /\ layers' = layers
       /\ (op' \in {"setMap", "setData"} /\ members.fillFunction.origin # "caller")
            => \A k \in 1..Len(layers'[DrawnClass]) : k \in sels'[DrawnClass].at =>
                    layers'[DrawnClass][k].fill
                        = (IF insKind = "Map"
                           THEN MapDefaultFill(members, layers'[DrawnClass][k].data, k - 1)
                           ELSE ScatterplotDefaultFill(members, layers'[DrawnClass][k].data, k - 1))
      ]_vars

\* Dots drawn with a caller's colour scale after the fill function was set and reset.
C15_Witness ==
    /\ insKind = "Scatterplot"
    /\ op = "setData"
    /\ members.fillFunction = ResetFill
    /\ members.colorScale.ref = "v2"
    /\ Len(layers.dot) = 2
    /\ layers.dot[2].fill = [scale |-> "v2", index |-> 1]

\* C16: the columns plotted have the fill setData gives them under the
\* current colour scale, whether colorScale(scale) came before or after.
C16_ColourSameBeforeOrAfter ==
    (accKind = "Histogram" /\ ~sels.column.null) =>
        \A k \in 1..Len(layers.column) : k \in sels.column.at =>
            layers.column[k].fill = ColumnFill(members.colorScale, k - 1)

\* The chart the constructors make of the same arguments but no position.
AtOrigin ==
    LET a == ctorArgs
        base == ChartConstructor(a.kind, a.container, NullValue, a.margins, a.dimensions)
    IN  IF a.kind \in {"Pie", "StarGlyph"} THEN CentreTransform(base) ELSE base

\* C17: the translation of a chart's group differs from that of the same
\* chart built with no position by exactly the position (x, y).
C17_GroupOffsetByPosition ==
    chart.kind # "none" =>
        /\ FracMinus(chart.transform[1], AtOrigin.transform[1]) = FInt(chart.x)
        /\ FracMinus(chart.transform[2], AtOrigin.transform[2]) = FInt(chart.y)

\* C18: xScale(scale) and yScale(scale) of src/Scatterplot.js install the
\* scale, bind both axes of the dimension to it so that they show its domain,
\* and return the chart.
C18_ScaleInstalledOnBothAxes ==
    (accKind = "Scatterplot" /\ call.mode = "set" /\ op \in {"xScale", "yScale"}) =>
        /\ ret = "this"
        /\ members[op].ref = call.arg.ref
        /\ \A axis \in AxesOf(op) : members[axis] = Axis(members[op])

\* Histogram.setData(dataset) has acted with the defaults for y, height and width.
ColumnsByDefault ==
    /\ insKind = "Histogram" /\ op = "setData"
    /\ \A f \in {"y", "height", "width"} : staticArgs[f].type \in {"null", "undefined"}

\* C19: after Histogram.setData(dataset) the y-scale domain is
\* [0, max(dataset)]; each column has y = yScale(d) and height = inner height
\* - yScale(d), so y + height is the inner height; the column of the largest
\* value has y = 0; every column has the width inner width / (length of the
\* x-axis scale's domain - 1).
C19_ColumnsStandOnAxisLargestAtTop ==
    ColumnsByDefault =>
        LET columns == layers.column
            largest == SetMax({columns[i].data : i \in 1..Len(columns)})
        IN  /\ Len(columns) > 0
            /\ aux.yDom = <<0, largest>>
            /\ \A i \in 1..Len(columns) :
                LET c == columns[i]
                    sum == FAdd(c.y.val, c.height.val)
                IN  /\ c.y.val = ScaleLinear(aux.yDom, <<Height, 0>>, c.data)
                    /\ c.height.val = FracMinus(FInt(Height), c.y.val)
                    /\ sum[1] = Height * sum[2]
                    /\ c.data = largest => c.y.val = FInt(0)
                    /\ c.width.val = Frac(Width, Len(aux.axisDom) - 1)

====
